---- MODULE Spec2Model ----
(***************************************************************************)
(* Model of src/beta/video-receiver.py: an HTTP server (_Server, a plain   *)
(* http.server.HTTPServer) that relays frames into one ffmpeg subprocess   *)
(* wrapped by _VideoEncoder.  serve_forever runs on ONE thread, so one     *)
(* request handler runs at a time; connections of other clients wait in    *)
(* the listen backlog.                                                     *)
(***************************************************************************)
EXTENDS Integers, Sequences, FiniteSets, TLC

VARIABLES
  encoder,    \* _Server.encoder: NoEncoder or the identity of a _VideoEncoder
  adapters,   \* every _VideoEncoder object constructed so far, by identity
  backlog,    \* connections accepted by the kernel, not yet by serve_forever;
              \*   overlaps (history): the request before it was still
              \*   outstanding when this one was issued
  cur,        \* <<request>> being handled by the server thread, or << >>
  pc,         \* position of the server thread inside the handler
  name,       \* _handle_meta's local variable `name`
  fin,        \* the active call of _VideoEncoder.finalize: adapter and caller
  sent,       \* responses written on the current connection
  snap,       \* history: encoder and adapters when the request was accepted
  log,        \* history: per completed request its body, the responses it got
              \*   and the encoder reference when it was accepted
  issued,     \* history: number of requests clients have issued
  main,       \* position of the main thread in _main
  ffmpeg_binary,    \* _main's local: "unset", "None" or "path"
  thread,     \* server_thread: position in serve_forever
  stopper,    \* stack of the running calls of _stopper (signal handlers nest)
  shutdown_request, \* BaseServer.__shutdown_request
  is_shut_down,     \* BaseServer.__is_shut_down (an Event)
  waiter,     \* the Event `waiter`
  sig,        \* history: per signal received, the value of issued at that time
  consumed,   \* per adapter, the number of frames its subprocess has read
  calls       \* history: place_image calls made on finalized adapters (0, 1, 2+)

vars == <<encoder, adapters, backlog, cur, pc, name, fin, sent, snap, log, issued>>
sysvars == <<main, ffmpeg_binary, thread, stopper, shutdown_request, is_shut_down,
             waiter, sig>>
envvars == <<consumed, calls>>
allvars == <<vars, sysvars, envvars>>

----------------------------------------------------------------------------
\* Bounds of the model.
MaxRequests == 3

\* The client threads; each has at most one request outstanding.
Clients == {"c1", "c2"}

\* HTTPStatus values used by the handler.
OK == 200
NO_CONTENT == 204
BAD_REQUEST == 400

\* `self.encoder = None` and finalize's `return None`.
NoEncoder == 0
NoPath == 0

----------------------------------------------------------------------------
\* Requests.  A header is present or absent (headers.get gives None); its
\* value is a sequence of tokens so that ==, startswith and int() are computed.
Absent == [has |-> FALSE, val |-> << >>]
Header(v) == [has |-> TRUE, val |-> v]

JSON_TYPE == <<"application/json">>

Digits == {"0", "7"}
DigitValue(c) == IF c = "7" THEN 7 ELSE 0

RECURSIVE DigitsValue(_)
DigitsValue(s) ==
  IF s = << >> THEN 0
  ELSE 10 * DigitsValue(SubSeq(s, 1, Len(s) - 1)) + DigitValue(s[Len(s)])

AllDigits(s) == Len(s) > 0 /\ \A i \in 1..Len(s) : s[i] \in Digits

\* int(raw_payload_length): [ok |-> FALSE] stands for ValueError.
ParseInt(s) ==
  IF AllDigits(s) THEN [ok |-> TRUE, val |-> DigitsValue(s)]
  ELSE IF Len(s) > 1 /\ s[1] = "-" /\ AllDigits(Tail(s))
    THEN [ok |-> TRUE, val |-> 0 - DigitsValue(Tail(s))]
  ELSE [ok |-> FALSE, val |-> 0]

StartsWithImage(v) == Len(v) > 0 /\ v[1] = "image/"

\* Request bodies.  kind is what the bytes are: a JSON object, a JSON list,
\* bytes that are no JSON, a PNG image, bytes that are no image.
NoKey == "<None>"
Geometries == {[width |-> 640, height |-> 480, fps |-> 30],
               [width |-> 320, height |-> 240, fps |-> 60]}
Pixels == {"p1", "p2"}
NoGeometry == [width |-> 0, height |-> 0, fps |-> 0]

Dict(keys, method, g) ==
  [kind |-> "dict", keys |-> keys, method |-> method, geom |-> g, pixels |-> ""]
Body(kind) ==
  [kind |-> kind, keys |-> {}, method |-> NoKey, geom |-> NoGeometry, pixels |-> ""]
Png(p) ==
  [kind |-> "png", keys |-> {}, method |-> NoKey, geom |-> NoGeometry, pixels |-> p]

Request(ct, cl, body) == [ctype |-> ct, clen |-> cl, payload |-> body]

GeomKeys == {"width", "height", "fps"}
BeginRequests ==
  {Request(Header(JSON_TYPE), Header(<<"7">>), Dict({"method"} \cup GeomKeys, "begin", g)) :
     g \in Geometries}
EndRequest == Request(Header(JSON_TYPE), Header(<<"7">>), Dict({"method"}, "end", NoGeometry))
PingRequest == Request(Header(JSON_TYPE), Header(<<"7">>), Dict({"method"}, "ping", NoGeometry))
FeedRequests ==
  {Request(Header(<<"image/", "png">>), Header(<<"7", "0">>), Png(p)) : p \in Pixels}

\* Requests the handler rejects in its framing checks or for their method.
MalformedRequests ==
  { Request(Absent, Header(<<"7">>), Dict({"method"}, "end", NoGeometry)),
    Request(Header(JSON_TYPE), Absent, Dict({"method"}, "end", NoGeometry)),
    Request(Header(JSON_TYPE), Header(<<"x">>), Dict({"method"}, "end", NoGeometry)),
    Request(Header(JSON_TYPE), Header(<<"0">>), Dict({"method"}, "end", NoGeometry)),
    Request(Header(JSON_TYPE), Header(<<"-", "7">>), Dict({"method"}, "end", NoGeometry)),
    Request(Header(<<"text/plain">>), Header(<<"7">>), Dict({"method"}, "end", NoGeometry)),
    Request(Header(<<"application/json", "; charset=utf-8">>), Header(<<"7">>),
            Dict({"method"}, "end", NoGeometry)),
    Request(Header(JSON_TYPE), Header(<<"7">>), Dict({"method"}, "stop", NoGeometry)),
    Request(Header(JSON_TYPE), Header(<<"7">>), Dict({}, NoKey, NoGeometry)) }

\* Requests on which the handler raises: socketserver's handle_error
\* swallows the exception and the connection is closed without a response.
RaisingRequests ==
  { Request(Header(JSON_TYPE), Header(<<"7">>), Body("garbage")),
    Request(Header(JSON_TYPE), Header(<<"7">>), Body("list")),
    Request(Header(<<"image/", "png">>), Header(<<"7">>), Body("junk")),
    Request(Header(JSON_TYPE), Header(<<"7">>),
            Dict({"method", "width", "fps"}, "begin", CHOOSE g \in Geometries : g.width = 640)) }

Requests ==
  BeginRequests \cup {EndRequest, PingRequest} \cup FeedRequests
    \cup MalformedRequests \cup RaisingRequests

----------------------------------------------------------------------------
\* json.loads(payload) and PIL.Image.open(BytesIO(payload)).
loads(payload) ==
  IF payload.kind \in {"dict", "list"} THEN [ok |-> TRUE, data |-> payload]
  ELSE [ok |-> FALSE, data |-> payload]

ImageOpen(payload) ==
  IF payload.kind = "png" THEN [ok |-> TRUE, image |-> [raw |-> payload.pixels]]
  ELSE [ok |-> FALSE, image |-> [raw |-> ""]]

tobytes(image) == image.raw

\* data.get("method")
GetMethod(data) == IF "method" \in data.keys THEN data.method ELSE NoKey

----------------------------------------------------------------------------
\* _VideoEncoder.  _encoder is TRUE while the attribute holds the Popen
\* object and FALSE once it is None.  stdin is what has been written to
\* _encoder.stdin, the subprocess's input pipe (a buffered writer that
\* communicate() flushes when it closes it); proc is the subprocess itself.
\* communicates and returned are history: the calls of Popen.communicate
\* and the values the calls of finalize returned.
\* Mutation of VideoEncoder: every adapter gets the same file name.
VideoEncoder_SameName(tmp, g) ==
  [_name |-> 1, _encoder |-> TRUE,
   width |-> g.width, height |-> g.height, fps |-> g.fps,
   stdin |-> << >>, stdin_closed |-> FALSE, proc |-> "running",
   communicates |-> 0, returned |-> << >>]

VideoEncoder(tmp, g) ==
  [_name |-> tmp, _encoder |-> TRUE,
   width |-> g.width, height |-> g.height, fps |-> g.fps,
   stdin |-> << >>, stdin_closed |-> FALSE, proc |-> "running",
   communicates |-> 0, returned |-> << >>]

\* Mutation of finalize_guard: the test is inverted (`is None`).
finalize_guard_inverted(ad) == ~ad._encoder

\* finalize, line 73: the guard.
finalize_guard(ad) == ad._encoder

\* finalize, line 74: communicate() closes stdin ...
communicate_close(ad) ==
  [ad EXCEPT !.stdin_closed = TRUE, !.communicates = @ + 1]

\* Mutation of communicate_done: stdin is closed but the exit is not awaited.
communicate_done_nowait(ad) == TRUE

\* ... and returns once the subprocess has exited.
communicate_done(ad) == ad.proc = "exited"

\* Mutation of finalize_return: line 75, `self._encoder = None`, is missing.
finalize_return_keep(ad) ==
  [ret |-> ad._name, ad |-> [ad EXCEPT !.returned = Append(@, ad._name)]]

\* finalize, lines 75-76.
finalize_return(ad) ==
  [ret |-> ad._name,
   ad |-> [ad EXCEPT !._encoder = FALSE, !.returned = Append(@, ad._name)]]

\* finalize, line 77.
finalize_none(ad) ==
  [ret |-> NoPath, ad |-> [ad EXCEPT !.returned = Append(@, NoPath)]]

\* Mutation of place_image: lines 83-84, the guard, are missing.
place_image_unguarded(ad, image) ==
  [ad EXCEPT !.stdin = Append(@, tobytes(image))]

\* Mutation of place_image: the guard is inverted, so a live encoder gets nothing.
place_image_inverted(ad, image) ==
  IF ad._encoder THEN ad
  ELSE [ad EXCEPT !.stdin = Append(@, tobytes(image))]

\* place_image, lines 82-85.  Popen was given stdin=PIPE, so _encoder.stdin
\* is never None: the guard is decided by _encoder alone.
place_image(ad, image) ==
  IF ~ad._encoder THEN ad
  ELSE [ad EXCEPT !.stdin = Append(@, tobytes(image))]

Alive(a) == adapters[a]._encoder
Running(a) == adapters[a].proc = "running"
Created == 1..Len(adapters)

----------------------------------------------------------------------------
\* Mutation of Route: lines 166-168, the check for no encoder, are missing,
\* so line 171 raises AttributeError on None.
Route_NoIdleCheck(r, enc) ==
  IF ~r.ctype.has THEN "bad_request"
  ELSE IF ~r.clen.has THEN "bad_request"
  ELSE IF ~ParseInt(r.clen.val).ok THEN "bad_request"
  ELSE IF ParseInt(r.clen.val).val <= 0 THEN "bad_request"
  ELSE IF r.ctype.val = JSON_TYPE
    THEN (IF loads(r.payload).ok THEN "_handle_meta" ELSE "raise")
  ELSE IF StartsWithImage(r.ctype.val)
    THEN (IF ImageOpen(r.payload).ok /\ enc # NoEncoder THEN "place_image" ELSE "raise")
  ELSE "bad_request"

\* Mutation of Route: line 157 tests `< 0`.
Route_Lenient(r, enc) ==
  IF ~r.ctype.has THEN "bad_request"
  ELSE IF ~r.clen.has THEN "bad_request"
  ELSE IF ~ParseInt(r.clen.val).ok THEN "bad_request"
  ELSE IF ParseInt(r.clen.val).val < 0 THEN "bad_request"
  ELSE IF r.ctype.val = JSON_TYPE
    THEN (IF loads(r.payload).ok THEN "_handle_meta" ELSE "raise")
  ELSE IF StartsWithImage(r.ctype.val)
    THEN (IF enc = NoEncoder THEN "bad_request"
          ELSE IF ImageOpen(r.payload).ok THEN "place_image" ELSE "raise")
  ELSE "bad_request"

\* do_POST, lines 141-176: where the request goes.
Route(r, enc) ==
  IF ~r.ctype.has THEN "bad_request"
  ELSE IF ~r.clen.has THEN "bad_request"
  ELSE IF ~ParseInt(r.clen.val).ok THEN "bad_request"
  ELSE IF ParseInt(r.clen.val).val <= 0 THEN "bad_request"
  ELSE IF r.ctype.val = JSON_TYPE
    THEN (IF loads(r.payload).ok THEN "_handle_meta" ELSE "raise")
  ELSE IF StartsWithImage(r.ctype.val)
    THEN (IF enc = NoEncoder THEN "bad_request"
          ELSE IF ImageOpen(r.payload).ok THEN "place_image" ELSE "raise")
  ELSE "bad_request"

\* Mutation of MetaBranch: line 118, the `return` after ping, is missing.
MetaBranch_PingFallsThrough(data) ==
  IF data.kind # "dict" THEN "raise"
  ELSE IF GetMethod(data) \notin {"begin", "end", "ping"} THEN "bad_request"
  ELSE "session"

\* _handle_meta, lines 109-118.
MetaBranch(data) ==
  IF data.kind # "dict" THEN "raise"
  ELSE IF GetMethod(data) \notin {"begin", "end", "ping"} THEN "bad_request"
  ELSE IF GetMethod(data) = "ping" THEN "ping"
  ELSE "session"

Response(status) == [status |-> status, json |-> FALSE, name |-> NoPath]
NameResponse(n) == [status |-> OK, json |-> TRUE, name |-> n]

NoSnap == [encoder |-> NoEncoder, adapters |-> << >>]
NoFin == [a |-> NoEncoder, caller |-> ""]

Req == cur[1].req
Data == loads(Req.payload).data

----------------------------------------------------------------------------
\* _Server.__init__ (lines 96-98) and the handler's locals.
InitServer ==
  /\ encoder = NoEncoder
  /\ adapters = << >>
  /\ backlog = << >>
  /\ cur = << >>
  /\ pc = "idle"
  /\ name = NoPath
  /\ fin = NoFin
  /\ sent = << >>
  /\ snap = NoSnap
  /\ log = << >>
  /\ issued = 0

\* No subprocess has read anything; nothing was placed on a finalized adapter.
InitEnv ==
  /\ consumed = [a \in 1..MaxRequests |-> 0]
  /\ calls = 0

\* _main has reached line 215: ffmpeg was found, the socket is bound, the
\* handlers are installed, serve_forever runs and no signal has arrived.
Serving ==
  /\ main = "wait"
  /\ ffmpeg_binary = "path"
  /\ thread = "loop"
  /\ stopper = << >>
  /\ shutdown_request = FALSE
  /\ is_shut_down = FALSE
  /\ waiter = FALSE
  /\ sig = << >>

\* The server while it serves.
Init == InitServer /\ InitEnv /\ Serving

\* A client connects and sends a request; the kernel queues the connection.
Submit(r) ==
  /\ issued < MaxRequests
  /\ Len(backlog) + Len(cur) < Cardinality(Clients)
  /\ backlog' = Append(backlog, [req |-> r, overlaps |-> backlog # << >> \/ cur # << >>])
  /\ issued' = issued + 1
  /\ UNCHANGED <<encoder, adapters, cur, pc, name, fin, sent, snap, log>>

\* serve_forever accepts the next connection and starts its handler.
Accept ==
  /\ pc = "idle"
  /\ backlog # << >>
  /\ cur' = <<Head(backlog)>>
  /\ backlog' = Tail(backlog)
  /\ pc' = "do_POST"
  /\ snap' = [encoder |-> encoder, adapters |-> adapters]
  /\ sent' = << >>
  /\ name' = NoPath
  /\ UNCHANGED <<encoder, adapters, fin, log, issued>>

\* do_POST up to the call it routes to.
DoPost ==
  /\ pc = "do_POST"
  /\ LET to == Route(Req, encoder) IN
       /\ pc' = IF to \in {"bad_request", "raise"} THEN "done" ELSE to
       /\ sent' = IF to = "bad_request" THEN Append(sent, Response(BAD_REQUEST)) ELSE sent
  /\ UNCHANGED <<encoder, adapters, backlog, cur, name, fin, snap, log, issued>>

\* _handle_meta, lines 109-118.
HandleMeta ==
  /\ pc = "_handle_meta"
  /\ LET to == MetaBranch(Data) IN
       /\ pc' = IF to = "session" THEN "retire" ELSE "done"
       /\ sent' = CASE to = "bad_request" -> Append(sent, Response(BAD_REQUEST))
                    [] to = "ping" -> Append(sent, Response(NO_CONTENT))
                    [] OTHER -> sent
  /\ UNCHANGED <<encoder, adapters, backlog, cur, name, fin, snap, log, issued>>

\* Mutation of Retire: only `end` finalizes the current encoder.
Retire_OnlyOnEnd ==
  /\ pc = "retire"
  /\ IF encoder # NoEncoder /\ GetMethod(Data) = "end"
       THEN /\ fin' = [a |-> encoder, caller |-> "_handle_meta"]
            /\ pc' = "finalize"
       ELSE /\ fin' = fin
            /\ pc' = "begin"
  /\ UNCHANGED <<encoder, adapters, backlog, cur, name, sent, snap, log, issued>>

\* _handle_meta, lines 120-121: call finalize on the current encoder, if any.
Retire ==
  /\ pc = "retire"
  /\ IF encoder # NoEncoder
       THEN /\ fin' = [a |-> encoder, caller |-> "_handle_meta"]
            /\ pc' = "finalize"
       ELSE /\ fin' = fin
            /\ pc' = "begin"
  /\ UNCHANGED <<encoder, adapters, backlog, cur, name, sent, snap, log, issued>>

\* Where a call of finalize returns to, and what becomes of its value.
ReturnTo(caller, ret) ==
  /\ pc' = IF caller = "_handle_meta" THEN "release" ELSE "respond"
  /\ name' = IF caller = "_handle_meta" THEN ret ELSE name
  /\ fin' = NoFin

\* finalize, lines 73-74 and 77: start communicate(), or return None.
Finalize ==
  /\ pc = "finalize"
  /\ IF finalize_guard(adapters[fin.a])
       THEN /\ adapters' = [adapters EXCEPT ![fin.a] = communicate_close(@)]
            /\ pc' = "communicate"
            /\ UNCHANGED <<name, fin>>
       ELSE /\ adapters' = [adapters EXCEPT ![fin.a] = finalize_none(@).ad]
            /\ ReturnTo(fin.caller, finalize_none(adapters[fin.a]).ret)
  /\ UNCHANGED <<encoder, backlog, cur, sent, snap, log, issued>>

\* finalize, lines 74-76: communicate() returns, the path is returned.
Communicate ==
  /\ pc = "communicate"
  /\ communicate_done(adapters[fin.a])
  /\ adapters' = [adapters EXCEPT ![fin.a] = finalize_return(@).ad]
  /\ ReturnTo(fin.caller, finalize_return(adapters[fin.a]).ret)
  /\ UNCHANGED <<encoder, backlog, cur, sent, snap, log, issued>>

\* Mutation of Release: line 122, `self.server.encoder = None`, is missing,
\* so the finalized adapter stays the server's encoder.
Release_KeepReference ==
  /\ pc = "release"
  /\ pc' = "respond"
  /\ UNCHANGED <<encoder, adapters, backlog, cur, name, fin, sent, snap, log, issued>>

\* _handle_meta, line 122: the reference is dropped; it was the last one, so
\* the object's __del__ (lines 79-80) runs and calls finalize again.
Release ==
  /\ pc = "release"
  /\ encoder' = NoEncoder
  /\ fin' = [a |-> encoder, caller |-> "__del__"]
  /\ pc' = "finalize"
  /\ UNCHANGED <<adapters, backlog, cur, name, sent, snap, log, issued>>

\* Mutation of Respond: line 123, `if method == "end"`, is missing.
Respond_Always ==
  /\ pc = "respond"
  /\ sent' = Append(sent, NameResponse(name))
  /\ pc' = "begin"
  /\ UNCHANGED <<encoder, adapters, backlog, cur, name, fin, snap, log, issued>>

\* _handle_meta, lines 123-128.
Respond ==
  /\ pc = "respond"
  /\ sent' = IF GetMethod(Data) = "end" THEN Append(sent, NameResponse(name)) ELSE sent
  /\ pc' = "begin"
  /\ UNCHANGED <<encoder, adapters, backlog, cur, name, fin, snap, log, issued>>

\* _handle_meta, lines 129-134, with _Server.create_encoder.
Begin ==
  /\ pc = "begin"
  /\ IF GetMethod(Data) # "begin"
       THEN UNCHANGED <<encoder, adapters, sent>>
       ELSE IF ~(GeomKeys \subseteq Data.keys)
         THEN UNCHANGED <<encoder, adapters, sent>>
         ELSE /\ adapters' = Append(adapters, VideoEncoder(Len(adapters) + 1, Data.geom))
              /\ encoder' = Len(adapters) + 1
              /\ sent' = Append(sent, Response(NO_CONTENT))
  /\ pc' = "done"
  /\ UNCHANGED <<backlog, cur, name, fin, snap, log, issued>>

\* do_POST, lines 169-171.
PlaceImage ==
  /\ pc = "place_image"
  /\ adapters' = [adapters EXCEPT ![encoder] = place_image(@, ImageOpen(Req.payload).image)]
  /\ pc' = "feed_respond"
  /\ UNCHANGED <<encoder, backlog, cur, name, fin, sent, snap, log, issued>>

\* do_POST, lines 172-174.
FeedRespond ==
  /\ pc = "feed_respond"
  /\ sent' = Append(sent, Response(NO_CONTENT))
  /\ pc' = "done"
  /\ UNCHANGED <<encoder, adapters, backlog, cur, name, fin, snap, log, issued>>

\* The handler has returned (or raised): the connection is closed.
Finish ==
  /\ pc = "done"
  /\ log' = Append(log, [payload |-> Req.payload, sent |-> sent, encoder |-> snap.encoder])
  /\ cur' = << >>
  /\ pc' = "idle"
  /\ sent' = << >>
  /\ snap' = NoSnap
  /\ name' = NoPath
  /\ UNCHANGED <<encoder, adapters, backlog, fin, issued>>

\* The ffmpeg subprocess reads end-of-file on its input and exits.
EncoderExit(a) ==
  /\ adapters[a].proc = "running"
  /\ adapters[a].stdin_closed
  /\ adapters' = [adapters EXCEPT ![a].proc = "exited"]
  /\ UNCHANGED <<encoder, backlog, cur, pc, name, fin, sent, snap, log, issued>>

\* A step of the server that leaves _main's threads and the subprocesses'
\* reading alone.
Quiet == UNCHANGED <<sysvars, envvars>>

\* The steps of a handler between do_POST's routing and its return that
\* every specification below shares.
HandlerStep ==
  \/ Quiet /\ DoPost
  \/ Quiet /\ HandleMeta
  \/ Quiet /\ Retire
  \/ Quiet /\ Finalize
  \/ Quiet /\ Communicate
  \/ Quiet /\ Release
  \/ Quiet /\ Respond
  \/ Quiet /\ FeedRespond
  \/ Quiet /\ Finish

Next ==
  \/ Quiet /\ \E r \in Requests : Submit(r)
  \/ Quiet /\ Accept
  \/ HandlerStep
  \/ Quiet /\ Begin
  \/ Quiet /\ PlaceImage
  \/ Quiet /\ \E a \in Created : EncoderExit(a)

Spec == Init /\ [][Next]_allvars

----------------------------------------------------------------------------
\* _main, serve_forever and the signal handler _stopper.
\*
\* main is the line of _main the main thread is at; a signal handler runs on
\* the main thread, on top of whatever it was doing, so the main thread
\* takes a step of _main only while no call of _stopper is active.
\* thread is the position of server_thread in socketserver's
\*   serve_forever:  __is_shut_down.clear()
\*                   while not __shutdown_request:
\*                     ready = selector.select(poll_interval)
\*                     if __shutdown_request: break
\*                     if ready: _handle_request_noblock()
\*                   finally: __shutdown_request = False; __is_shut_down.set()
\*   shutdown:       __shutdown_request = True; __is_shut_down.wait()
MaxSignals == 2

Signals == {"SIGTERM", "SIGINT"}

\* The requests clients send in the runs that follow _main.
MainRequests ==
  {r \in BeginRequests : r.payload.geom.width = 640} \cup {EndRequest}
    \cup {r \in FeedRequests : r.payload.pixels = "p1"}

\* The process is at the top of _main.
Boot ==
  /\ main = "which"
  /\ ffmpeg_binary = "unset"
  /\ thread = "unstarted"
  /\ stopper = << >>
  /\ shutdown_request = FALSE
  /\ is_shut_down = FALSE
  /\ waiter = FALSE
  /\ sig = << >>

InitMain == InitServer /\ InitEnv /\ Boot

\* The listening socket exists and the process is alive.
Listening == main \in {"signal_term", "signal_int", "start", "wait"}

\* _stopper is installed for signal s.
Installed(s) ==
  IF s = "SIGTERM" THEN main \in {"signal_int", "start", "wait"}
  ELSE main \in {"start", "wait"}

\* The process has ended: _main returned, exit_program() or an uncaught
\* exception ended it, or a signal with its default disposition did.
Ended == main \in {"exited", "exit_program", "OSError", "killed"}

\* Line 191: shutil.which finds the executable or returns None.
Which ==
  /\ main = "which"
  /\ stopper = << >>
  /\ \E found \in {"None", "path"} : ffmpeg_binary' = found
  /\ main' = "check"
  /\ UNCHANGED <<thread, stopper, shutdown_request, is_shut_down, waiter, sig>>
  /\ UNCHANGED <<vars, envvars>>

\* Mutation of after_which: line 196, exit_program(), is missing.
after_which_continue(binary) == "bind"

\* Lines 192-196: where _main goes after which().
after_which(binary) == IF binary = "None" THEN "exit_program" ELSE "bind"

Check ==
  /\ main = "check"
  /\ stopper = << >>
  /\ main' = after_which(ffmpeg_binary)
  /\ UNCHANGED <<ffmpeg_binary, thread, stopper, shutdown_request, is_shut_down, waiter, sig>>
  /\ UNCHANGED <<vars, envvars>>

\* Lines 197-203: HTTPServer.__init__ binds and listens, or raises OSError
\* (the port is in use), which nothing catches.
Bind ==
  /\ main = "bind"
  /\ stopper = << >>
  /\ \E bound \in BOOLEAN : main' = IF bound THEN "signal_term" ELSE "OSError"
  /\ UNCHANGED <<ffmpeg_binary, thread, stopper, shutdown_request, is_shut_down, waiter, sig>>
  /\ UNCHANGED <<vars, envvars>>

\* Lines 211 and 212: signal.signal, one call per step.
InstallHandler ==
  /\ main \in {"signal_term", "signal_int"}
  /\ stopper = << >>
  /\ main' = IF main = "signal_term" THEN "signal_int" ELSE "start"
  /\ UNCHANGED <<ffmpeg_binary, thread, stopper, shutdown_request, is_shut_down, waiter, sig>>
  /\ UNCHANGED <<vars, envvars>>

\* Line 213: server_thread.start().
StartThread ==
  /\ main = "start"
  /\ stopper = << >>
  /\ thread' = "enter"
  /\ main' = "wait"
  /\ UNCHANGED <<ffmpeg_binary, stopper, shutdown_request, is_shut_down, waiter, sig>>
  /\ UNCHANGED <<vars, envvars>>

\* Line 215: waiter.wait() returns once the event is set; _main returns.
Wait ==
  /\ main = "wait"
  /\ stopper = << >>
  /\ waiter
  /\ main' = "exited"
  /\ UNCHANGED <<ffmpeg_binary, thread, stopper, shutdown_request, is_shut_down, waiter, sig>>
  /\ UNCHANGED <<vars, envvars>>

\* The process receives signal s: _stopper is called on the main thread if
\* it is installed for s, else the process is terminated.
Signal(s) ==
  /\ ~Ended
  /\ Len(sig) < MaxSignals
  /\ sig' = Append(sig, s)
  /\ IF Installed(s)
       THEN /\ stopper' = <<"shutdown">> \o stopper
            /\ main' = main
       ELSE /\ stopper' = stopper
            /\ main' = "killed"
  /\ UNCHANGED <<ffmpeg_binary, thread, shutdown_request, is_shut_down, waiter>>
  /\ UNCHANGED <<vars, envvars>>

\* _stopper, lines 207-209, the innermost active call.  shutdown() sets the
\* flag and waits for __is_shut_down; join() waits for serve_forever to return.
Stopper ==
  /\ stopper # << >>
  /\ ~Ended
  /\ LET at == Head(stopper) IN
       /\ at = "shutdown_wait" => is_shut_down
       /\ at = "join" => thread = "stopped"
       /\ shutdown_request' = IF at = "shutdown" THEN TRUE ELSE shutdown_request
       /\ waiter' = IF at = "set" THEN TRUE ELSE waiter
       /\ stopper' = CASE at = "shutdown" -> <<"shutdown_wait">> \o Tail(stopper)
                        [] at = "shutdown_wait" -> <<"join">> \o Tail(stopper)
                        [] at = "join" -> <<"set">> \o Tail(stopper)
                        [] at = "set" -> Tail(stopper)
  /\ UNCHANGED <<main, ffmpeg_binary, thread, is_shut_down, sig>>
  /\ UNCHANGED <<vars, envvars>>

\* serve_forever, every step but the call of the handler.  The handler runs
\* on this thread, so the loop continues once the handler has returned.
ServeForever ==
  /\ thread \in {"enter", "loop", "select", "ready", "timeout", "finally"}
  /\ pc = "idle"
  /\ ~Ended
  /\ thread' = CASE thread = "enter" -> "loop"
                  [] thread = "loop" -> IF shutdown_request THEN "finally" ELSE "select"
                  [] thread = "select" -> IF backlog # << >> THEN "ready" ELSE "timeout"
                  [] thread = "ready" -> IF shutdown_request THEN "finally" ELSE "handle"
                  [] thread = "timeout" -> IF shutdown_request THEN "finally" ELSE "loop"
                  [] thread = "finally" -> "stopped"
  /\ is_shut_down' = CASE thread = "enter" -> FALSE
                        [] thread = "finally" -> TRUE
                        [] OTHER -> is_shut_down
  /\ shutdown_request' = IF thread = "finally" THEN FALSE ELSE shutdown_request
  /\ UNCHANGED <<main, ffmpeg_binary, stopper, waiter, sig>>
  /\ UNCHANGED <<vars, envvars>>

\* _handle_request_noblock: the connection is accepted and handled.
HandleRequest ==
  /\ thread = "handle"
  /\ ~Ended
  /\ Accept
  /\ thread' = "loop"
  /\ UNCHANGED <<main, ffmpeg_binary, stopper, shutdown_request, is_shut_down, waiter, sig>>
  /\ UNCHANGED envvars

\* The steps of the program itself, as opposed to its clients, the signals
\* sent to it and the subprocesses.
ProgramStep ==
  \/ Which
  \/ Check
  \/ Bind
  \/ InstallHandler
  \/ StartThread
  \/ Wait
  \/ Stopper
  \/ ServeForever
  \/ HandleRequest
  \/ HandlerStep
  \/ Quiet /\ Begin
  \/ Quiet /\ PlaceImage

NextMain ==
  \/ ProgramStep
  \/ \E s \in Signals : Signal(s)
  \/ Quiet /\ Listening /\ \E r \in MainRequests : Submit(r)
  \/ Quiet /\ \E a \in Created : EncoderExit(a)

SpecMain == InitMain /\ [][NextMain]_allvars

----------------------------------------------------------------------------
\* The input pipe of the subprocess.  stdin holds the frames handed to
\* write() so far and consumed[a] counts those the subprocess has read; a
\* write returns once all its bytes are in the pipe, which holds at most
\* PipeFrames whole frames that are still unread.
PipeFrames == 0

PipeRequests ==
  {r \in BeginRequests : r.payload.geom.width = 640} \cup {EndRequest, PingRequest}
    \cup FeedRequests

Unread(a) == Len(adapters[a].stdin) - consumed[a]

\* Mutation of write_returns: the write never waits for the subprocess.
write_returns_nowait(ad, n) == TRUE

\* Line 85: stdin.write returns.
write_returns(ad, n) == Len(ad.stdin) - n <= PipeFrames

\* Mutation of WriteStart: the 204 of lines 172-174 is sent before the write.
WriteStart_AckFirst ==
  /\ pc = "place_image"
  /\ adapters' = [adapters EXCEPT ![encoder] = place_image(@, ImageOpen(Req.payload).image)]
  /\ sent' = Append(sent, Response(NO_CONTENT))
  /\ pc' = "write"
  /\ UNCHANGED <<encoder, backlog, cur, name, fin, snap, log, issued>>
  /\ Quiet

\* do_POST, lines 169-171, up to the point where write() has taken the frame.
WriteStart ==
  /\ pc = "place_image"
  /\ adapters' = [adapters EXCEPT ![encoder] = place_image(@, ImageOpen(Req.payload).image)]
  /\ pc' = "write"
  /\ UNCHANGED <<encoder, backlog, cur, name, fin, sent, snap, log, issued>>
  /\ Quiet

\* write() returns and place_image with it.
WriteReturn ==
  /\ pc = "write"
  /\ write_returns(adapters[encoder], consumed[encoder])
  /\ pc' = "feed_respond"
  /\ UNCHANGED <<encoder, adapters, backlog, cur, name, fin, sent, snap, log, issued>>
  /\ Quiet

\* The subprocess reads the next frame from its input.
EncoderRead(a) ==
  /\ adapters[a].proc = "running"
  /\ consumed[a] < Len(adapters[a].stdin)
  /\ consumed' = [consumed EXCEPT ![a] = @ + 1]
  /\ UNCHANGED <<vars, sysvars, calls>>

\* The subprocess exits at end-of-file, after it has read all its input.
EncoderDrained(a) ==
  /\ Unread(a) = 0
  /\ EncoderExit(a)
  /\ Quiet

\* The steps of the server thread.
ServerPipe ==
  \/ Quiet /\ Accept
  \/ HandlerStep
  \/ Quiet /\ Begin
  \/ WriteStart
  \/ WriteReturn

NextPipe ==
  \/ Quiet /\ \E r \in PipeRequests : Submit(r)
  \/ ServerPipe
  \/ \E a \in Created : EncoderRead(a)
  \/ \E a \in Created : EncoderDrained(a)

SpecPipe == Init /\ [][NextPipe]_allvars

----------------------------------------------------------------------------
\* Failures of the subprocess: it cannot be spawned, or it exits on its own
\* while the adapter still holds it.
MissingKeyBegins == {r \in RaisingRequests : GetMethod(r.payload) = "begin"}

FaultRequests ==
  {r \in BeginRequests : r.payload.geom.width = 640} \cup MissingKeyBegins
    \cup {EndRequest} \cup {r \in FeedRequests : r.payload.pixels = "p1"}

\* ffmpeg exits although its input is still open (an error in its
\* arguments, a crash, a kill).
EncoderCrash(a) ==
  /\ adapters[a].proc = "running"
  /\ ~adapters[a].stdin_closed
  /\ adapters' = [adapters EXCEPT ![a].proc = "exited"]
  /\ UNCHANGED <<encoder, backlog, cur, pc, name, fin, sent, snap, log, issued>>

\* Line 85 when the subprocess has exited: the read end of the pipe is
\* closed, so a write that reaches the pipe raises BrokenPipeError, which
\* nothing catches; the handler ends without a response.  (A frame shorter
\* than the writer's buffer does not reach the pipe: that write returns,
\* which is PlaceImage.)
BrokenPipe ==
  /\ pc = "place_image"
  /\ Alive(encoder)
  /\ adapters[encoder].proc = "exited"
  /\ pc' = "done"
  /\ UNCHANGED <<encoder, adapters, backlog, cur, name, fin, sent, snap, log, issued>>

\* Mutation of SpawnFails: lines 132-134 come before line 131.
SpawnFails_AckFirst ==
  /\ pc = "begin"
  /\ GetMethod(Data) = "begin"
  /\ GeomKeys \subseteq Data.keys
  /\ sent' = Append(sent, Response(NO_CONTENT))
  /\ pc' = "done"
  /\ UNCHANGED <<encoder, adapters, backlog, cur, name, fin, snap, log, issued>>

\* Lines 131 and 101 when _VideoEncoder(...) raises (NamedTemporaryFile or
\* Popen fails): nothing is assigned to server.encoder and nothing is sent.
SpawnFails ==
  /\ pc = "begin"
  /\ GetMethod(Data) = "begin"
  /\ GeomKeys \subseteq Data.keys
  /\ pc' = "done"
  /\ UNCHANGED <<encoder, adapters, backlog, cur, name, fin, sent, snap, log, issued>>

NextFaults ==
  \/ Quiet /\ \E r \in FaultRequests : Submit(r)
  \/ Quiet /\ Accept
  \/ HandlerStep
  \/ Quiet /\ Begin
  \/ Quiet /\ SpawnFails
  \/ Quiet /\ PlaceImage
  \/ Quiet /\ BrokenPipe
  \/ Quiet /\ \E a \in Created : EncoderExit(a)
  \/ Quiet /\ \E a \in Created : EncoderCrash(a)

SpecFaults == Init /\ [][NextFaults]_allvars

----------------------------------------------------------------------------
\* _VideoEncoder on its own: place_image called on an adapter after it was
\* finalized.  The handler never does this (line 122 drops the reference),
\* so the calls are made here by a caller that kept the object.
MaxPlaceCalls == 2

AdapterRequests ==
  {r \in BeginRequests : r.payload.geom.width = 640} \cup {EndRequest} \cup FeedRequests

DirectPlace(a, p) ==
  /\ pc = "idle"
  /\ ~Alive(a)
  /\ calls < MaxPlaceCalls
  /\ adapters' = [adapters EXCEPT ![a] = place_image(@, ImageOpen(Png(p)).image)]
  /\ calls' = calls + 1
  /\ UNCHANGED <<encoder, backlog, cur, pc, name, fin, sent, snap, log, issued>>
  /\ UNCHANGED <<sysvars, consumed>>

NextAdapter ==
  \/ Quiet /\ \E r \in AdapterRequests : Submit(r)
  \/ Quiet /\ Accept
  \/ HandlerStep
  \/ Quiet /\ Begin
  \/ Quiet /\ PlaceImage
  \/ Quiet /\ \E a \in Created : EncoderExit(a)
  \/ \E a \in Created, p \in Pixels : DirectPlace(a, p)

SpecAdapter == Init /\ [][NextAdapter]_allvars

----------------------------------------------------------------------------
\* Vocabulary of the properties.
Handling == cur # << >>
Recording == encoder # NoEncoder
WasRecording == snap.encoder # NoEncoder
AliveSet == {a \in Created : Alive(a)}
RunningSet == {a \in Created : Running(a)}
Unchanged == encoder = snap.encoder /\ adapters = snap.adapters

\* Requests with an image content type that pass the framing checks.
ImageRequests ==
  {r \in Requests \ MalformedRequests : r.ctype.has /\ StartsWithImage(r.ctype.val)}

\* The names carried by a sequence of responses.
NamesIn(responses) == {responses[k].name : k \in 1..Len(responses)} \ {NoPath}

\* Every name any response has carried so far.
NamesReported ==
  UNION {NamesIn(log[i].sent) : i \in 1..Len(log)} \cup NamesIn(sent)

\* The frames of the feed requests answered 204 while adapter a was current.
RECURSIVE AckedFrames(_, _)
AckedFrames(a, n) ==
  IF n = 0 THEN << >>
  ELSE LET e == log[n] IN
    IF e.encoder = a /\ e.payload.kind = "png" /\ e.sent = <<Response(NO_CONTENT)>>
      THEN Append(AckedFrames(a, n - 1), e.payload.pixels)
      ELSE AckedFrames(a, n - 1)

----------------------------------------------------------------------------
\* C1: at every instant at most one _VideoEncoder is unfinalized and at most
\* one encoder subprocess is running, a running subprocess belongs to an
\* unfinalized adapter, and an unfinalized adapter is the one the server's
\* encoder attribute refers to.
TheoremC1 ==
  /\ Cardinality(AliveSet) <= 1
  /\ Cardinality(RunningSet) <= 1
  /\ RunningSet \subseteq AliveSet
  /\ \A a \in AliveSet : encoder = a

\* A begin while Recording has completed: the old adapter is finalized, the new one is live.
WitnessC1 ==
  /\ pc = "done"
  /\ Req \in BeginRequests
  /\ WasRecording
  /\ ~Alive(snap.encoder)
  /\ AliveSet = {encoder}
  /\ encoder # snap.encoder

\* C2: between requests, the frames written to each adapter's input pipe are
\* exactly the frames of the feed requests answered 204 while that adapter
\* was the session's, in the order in which those requests were handled.
TheoremC2 ==
  pc = "idle" => \A a \in Created : adapters[a].stdin = AckedFrames(a, Len(log))

\* begin, feed(p2), feed(p1) have been handled.
WitnessC2 ==
  /\ pc = "idle"
  /\ \E a \in Created : adapters[a].stdin = <<"p2", "p1">>

\* C3: an image request handled while no encoder is set never changes the
\* encoder reference or any adapter, and ends with exactly one response, 400.
TheoremC3 ==
  (Handling /\ Req \in ImageRequests /\ ~WasRecording) =>
     /\ Unchanged
     /\ ~Recording
     /\ pc = "done" => sent = <<Response(BAD_REQUEST)>>

\* A feed was rejected in a session that is Idle again after a recording.
WitnessC3 ==
  /\ pc = "done"
  /\ Req \in FeedRequests
  /\ ~WasRecording
  /\ Len(adapters) > 0
  /\ sent = <<Response(BAD_REQUEST)>>

\* C4: when a begin with a geometry handled while Recording completes, its
\* only response is 204 without a body, the prior adapter is finalized and
\* its subprocess has exited, and the encoder reference is a freshly
\* constructed live adapter with the geometry of this begin; and no response
\* ever carries the path of an adapter that a begin replaced.
TheoremC4 ==
  /\ (pc = "done" /\ Req \in BeginRequests /\ WasRecording) =>
       /\ sent = <<Response(NO_CONTENT)>>
       /\ ~Alive(snap.encoder)
       /\ adapters[snap.encoder].proc = "exited"
       /\ Len(adapters) = Len(snap.adapters) + 1
       /\ encoder = Len(adapters)
       /\ Alive(encoder)
       /\ adapters[encoder].stdin = << >>
       /\ [width |-> adapters[encoder].width, height |-> adapters[encoder].height,
           fps |-> adapters[encoder].fps] = Req.payload.geom
  /\ \A i \in 1..Len(log) :
       (log[i].payload.method = "begin" /\ log[i].encoder # NoEncoder) =>
          adapters[log[i].encoder]._name \notin NamesReported

\* begin, begin, end: the end has reported the second adapter's path.
WitnessC4 ==
  /\ pc = "done"
  /\ Len(log) = 2
  /\ log[2].payload.method = "begin"
  /\ log[2].encoder # NoEncoder
  /\ log[2].sent = <<Response(NO_CONTENT)>>
  /\ Req = EndRequest
  /\ sent = <<NameResponse(adapters[snap.encoder]._name)>>

\* C5: while an end that found the session Recording is handled, a response
\* exists only once the adapter is finalized and its subprocess has exited,
\* and it is 200 with that adapter's path; when the handler is done the
\* response has been sent, the encoder reference is None and no adapter is live.
TheoremC5 ==
  (Handling /\ Req = EndRequest /\ WasRecording) =>
     /\ sent # << >> =>
          /\ sent = <<NameResponse(adapters[snap.encoder]._name)>>
          /\ adapters[snap.encoder].stdin_closed
          /\ adapters[snap.encoder].proc = "exited"
          /\ ~Alive(snap.encoder)
     /\ pc = "done" =>
          /\ sent # << >>
          /\ ~Recording
          /\ AliveSet = {}

\* An end has completed for an adapter that had been fed a frame.
WitnessC5 ==
  /\ pc = "done"
  /\ Req = EndRequest
  /\ WasRecording
  /\ adapters[snap.encoder].stdin # << >>
  /\ sent = <<NameResponse(adapters[snap.encoder]._name)>>

\* C6: an end handled while no encoder is set gets one 200 response that
\* carries no path, and changes neither the encoder reference nor an adapter.
ClaimC6 ==
  (pc = "done" /\ Req = EndRequest /\ ~WasRecording) =>
     /\ Len(sent) = 1
     /\ sent[1].status = OK
     /\ sent[1].name = NoPath
     /\ Unchanged

\* C7: while a ping is handled the encoder reference and every adapter stay
\* as they were when it was accepted, and it ends with one success response.
TheoremC7 ==
  (Handling /\ Req = PingRequest) =>
     /\ Unchanged
     /\ pc = "done" => (Len(sent) = 1 /\ sent[1].status \in {OK, NO_CONTENT})

\* A second ping in a row has completed while Recording.
WitnessC7 ==
  /\ pc = "done"
  /\ Req = PingRequest
  /\ WasRecording
  /\ Alive(encoder)
  /\ Len(log) > 0
  /\ log[Len(log)].payload.method = "ping"
  /\ log[Len(log)].sent = <<Response(NO_CONTENT)>>

\* C8: while a malformed request is handled the encoder reference and every
\* adapter stay as they were, and it ends with exactly one response, 400.
TheoremC8 ==
  (Handling /\ Req \in MalformedRequests) =>
     /\ Unchanged
     /\ pc = "done" => sent = <<Response(BAD_REQUEST)>>

\* A request with Content-Length 0 was rejected while Recording.
WitnessC8 ==
  /\ pc = "done"
  /\ Req \in MalformedRequests
  /\ Req.clen = Header(<<"0">>)
  /\ WasRecording
  /\ Alive(encoder)
  /\ sent = <<Response(BAD_REQUEST)>>

\* C9: when a begin completes that was issued while the begin before it was
\* still outstanding, both were answered 204, the adapter of the earlier one
\* is finalized and its subprocess has exited after one communicate(), and
\* the one live adapter, with the one running subprocess, is the adapter the
\* encoder reference names; while the later one is handled no live adapter
\* is unreachable from the encoder reference.
OverlappingBegins ==
  /\ Handling
  /\ Req \in BeginRequests
  /\ cur[1].overlaps
  /\ Len(log) > 0
  /\ log[Len(log)].payload \in {r.payload : r \in BeginRequests}
  /\ log[Len(log)].sent = <<Response(NO_CONTENT)>>

TheoremC9 ==
  OverlappingBegins =>
     /\ WasRecording
     /\ snap.encoder = Len(snap.adapters)
     /\ AliveSet \subseteq {encoder}
     /\ pc = "done" =>
          /\ sent = <<Response(NO_CONTENT)>>
          /\ Recording
          /\ encoder # snap.encoder
          /\ AliveSet = {encoder}
          /\ RunningSet = {encoder}
          /\ ~Alive(snap.encoder)
          /\ adapters[snap.encoder].proc = "exited"
          /\ adapters[snap.encoder].communicates = 1

\* Two begins with different geometries, outstanding together, have both completed.
WitnessC9 ==
  /\ OverlappingBegins
  /\ pc = "done"
  /\ log[Len(log)].payload # Req.payload
  /\ Len(adapters) = 2

\* C10: for every adapter, the first call of finalize that returns gives the
\* adapter's path after exactly one communicate(), with stdin closed, the
\* subprocess exited and _encoder None; every later call returns None and
\* calls communicate() no more, and the adapter stays finalized.
TheoremC10 ==
  \A a \in Created :
    LET ad == adapters[a] IN
      /\ ad.communicates <= 1
      /\ Len(ad.returned) >= 1 =>
           /\ ad.returned[1] = ad._name
           /\ \A i \in 2..Len(ad.returned) : ad.returned[i] = NoPath
           /\ ad.communicates = 1
           /\ ~ad._encoder
           /\ ad.stdin_closed
           /\ ad.proc = "exited"
           \* what one more call would do in this state
           /\ ~finalize_guard(ad)
           /\ finalize_none(ad).ret = NoPath
           /\ [finalize_none(ad).ad EXCEPT !.returned = ad.returned] = ad

\* An adapter on which finalize has returned twice: line 121, then __del__.
WitnessC10 ==
  \E a \in Created :
    /\ Len(adapters[a].returned) = 2
    /\ adapters[a].stdin # << >>

\* C11: after a termination signal the listener stops accepting, a request
\* in flight completes before the server loop ends, the shutdown path
\* finalizes no adapter of a session that is still Recording, and the
\* process goes on to exit: once the loop has ended no handler is running
\* and none can start, the adapter of a Recording session is then still
\* live with its input open, and while a signalled process has not ended
\* some step of the program or of a subprocess can be taken.
ClaimC11 ==
  /\ thread = "stopped" =>
       /\ pc = "idle"
       /\ cur = << >>
       /\ ~ENABLED HandleRequest
       /\ Recording =>
            /\ Alive(encoder)
            /\ ~adapters[encoder].stdin_closed
            /\ adapters[encoder].communicates = 0
  /\ (sig # << >> /\ ~Ended) =>
       ENABLED (ProgramStep \/ \E a \in Created : Quiet /\ EncoderExit(a))

\* C12: in a run where the encoder executable is not found or the listener
\* cannot bind, the server thread is never started, no connection is queued
\* or handled, no adapter is created, and _main gets no further than the
\* failing step.
TheoremC12 ==
  (ffmpeg_binary = "None" \/ main = "OSError") =>
     /\ main \in {"check", "exit_program", "OSError", "killed"}
     /\ thread = "unstarted"
     /\ issued = 0
     /\ backlog = << >>
     /\ cur = << >>
     /\ log = << >>
     /\ adapters = << >>
     /\ encoder = NoEncoder
     /\ ~ENABLED ServeForever
     /\ ~ENABLED HandleRequest

\* The executable was found, and the bind failed.
WitnessC12 ==
  /\ main = "OSError"
  /\ ffmpeg_binary = "path"

\* A frame is written only by the feed being handled, whole, to the
\* adapter the encoder reference names, and only while that adapter is
\* unfinalized with its input open and no finalize call is active; a feed
\* that is acknowledged has put its frame on the live adapter that was
\* current when it was accepted, and a feed that is rejected found no
\* adapter and changed nothing.
WritesOnlyToLive ==
  \A a \in Created :
    adapters'[a].stdin # adapters[a].stdin =>
      /\ pc = "place_image"
      /\ Req \in ImageRequests
      /\ a = encoder
      /\ fin = NoFin
      /\ Alive(a)
      /\ ~adapters[a].stdin_closed
      /\ adapters[a].communicates = 0
      /\ adapters'[a].stdin = Append(adapters[a].stdin, Req.payload.pixels)

FeedOutcome ==
  (Handling /\ Req \in FeedRequests) =>
     /\ (pc = "feed_respond" \/ (pc = "done" /\ sent = <<Response(NO_CONTENT)>>)) =>
          /\ WasRecording
          /\ encoder = snap.encoder
          /\ Alive(encoder)
          /\ ~adapters[encoder].stdin_closed
          /\ adapters[encoder].stdin =
               Append(snap.adapters[encoder].stdin, Req.payload.pixels)
     /\ (pc = "done" /\ sent # <<Response(NO_CONTENT)>>) =>
          /\ sent = <<Response(BAD_REQUEST)>>
          /\ ~WasRecording
          /\ Unchanged

\* C13: every step writes only to a live adapter, and every feed ends in
\* one of the two outcomes.
TheoremC13 == [][WritesOnlyToLive]_allvars /\ []FeedOutcome

\* A feed issued while a superseding begin was outstanding has put its
\* frame on the adapter that begin installed.
WitnessC13 ==
  /\ pc = "done"
  /\ Req \in FeedRequests
  /\ cur[1].overlaps
  /\ Len(log) = 2
  /\ log[2].payload.method = "begin"
  /\ log[2].encoder # NoEncoder
  /\ encoder = 2
  /\ ~Alive(1)
  /\ adapters[1].stdin = << >>
  /\ adapters[2].stdin = <<Req.payload.pixels>>

\* The write of the feed being handled has not returned: the pipe is full
\* and the subprocess has yet to read.
WriteBlocked ==
  /\ pc = "write"
  /\ Alive(encoder)
  /\ Unread(encoder) > PipeFrames

\* The frames acknowledged so far are the first frames written to a.
AckedIsPrefix(a) ==
  LET acked == AckedFrames(a, Len(log)) IN
    /\ Len(acked) <= Len(adapters[a].stdin)
    /\ acked = SubSeq(adapters[a].stdin, 1, Len(acked))

ClaimC16 ==
  (pc = "done" /\ Req \in FeedRequests /\ WasRecording
     /\ snap.adapters[snap.encoder].proc = "exited") =>
     /\ sent = <<Response(NO_CONTENT)>>
     /\ encoder = snap.encoder
     /\ Alive(encoder)

\* A begin has ended without constructing an adapter.
FailedBegin ==
  /\ pc = "done"
  /\ Data.kind = "dict"
  /\ GetMethod(Data) = "begin"
  /\ Len(adapters) = Len(snap.adapters)

\* C19: when a begin has ended without a new adapter (a geometry key is
\* missing, or the subprocess could not be spawned), the encoder reference
\* is None, no adapter is unfinalized, nothing was sent, and the adapter of
\* a session that was Recording is finalized with its subprocess exited.
TheoremC19 ==
  FailedBegin =>
     /\ encoder = NoEncoder
     /\ AliveSet = {}
     /\ sent = << >>
     /\ WasRecording =>
          /\ ~Alive(snap.encoder)
          /\ adapters[snap.encoder].stdin_closed
          /\ adapters[snap.encoder].proc = "exited"
          /\ adapters[snap.encoder].communicates = 1
          /\ adapters[snap.encoder].stdin = snap.adapters[snap.encoder].stdin

\* The subprocess could not be spawned for a begin that found the session
\* Recording with a frame written.
WitnessC19 ==
  /\ FailedBegin
  /\ Req \in BeginRequests
  /\ WasRecording
  /\ adapters[snap.encoder].stdin # << >>

\* C17: for every finalized adapter, place_image with any frame returns
\* the adapter as it is (nothing written, _encoder still None, the
\* subprocess still exited), and however many such calls were made the
\* adapter's input holds exactly the frames acknowledged while it was live.
TheoremC17 ==
  \A a \in Created :
    ~Alive(a) =>
      /\ \A p \in Pixels : place_image(adapters[a], ImageOpen(Png(p)).image) = adapters[a]
      /\ adapters[a].stdin_closed
      /\ adapters[a].proc = "exited"
      /\ adapters[a].communicates = 1
      /\ pc = "idle" => adapters[a].stdin = AckedFrames(a, Len(log))

\* place_image was called twice on a finalized adapter that had taken a frame.
WitnessC17 ==
  /\ calls = MaxPlaceCalls
  /\ \E a \in Created : ~Alive(a) /\ Len(adapters[a].stdin) = 1

\* The number of begins among the first n handled requests that installed
\* an adapter; adapters are numbered in the order of their construction.
RECURSIVE BeginsBefore(_)
BeginsBefore(n) ==
  IF n = 0 THEN 0
  ELSE BeginsBefore(n - 1) +
         (IF log[n].payload.method = "begin" /\ log[n].sent = <<Response(NO_CONTENT)>>
            THEN 1 ELSE 0)

\* C18: distinct adapters have distinct paths; no path is carried by two
\* responses; and a response that carries a path is the only response of
\* an end, and the path is that of the adapter the encoder reference named
\* when the end was accepted, which is the adapter the most recent
\* successful begin before it installed.
TheoremC18 ==
  /\ \A a, b \in Created : adapters[a]._name = adapters[b]._name => a = b
  /\ \A i \in 1..Len(log) :
       /\ NamesIn(log[i].sent) \cap NamesIn(sent) = {}
       /\ \A j \in 1..Len(log) :
            i # j => NamesIn(log[i].sent) \cap NamesIn(log[j].sent) = {}
       /\ NamesIn(log[i].sent) # {} =>
            /\ log[i].payload = EndRequest.payload
            /\ log[i].encoder # NoEncoder
            /\ log[i].encoder = BeginsBefore(i - 1)
            /\ log[i].sent = <<NameResponse(adapters[log[i].encoder]._name)>>
  /\ NamesIn(sent) # {} =>
       /\ Req.payload = EndRequest.payload
       /\ WasRecording
       /\ snap.encoder = BeginsBefore(Len(log))
       /\ sent = <<NameResponse(adapters[snap.encoder]._name)>>

\* begin, end, end: the second end reports nothing, the path was reported once.
WitnessC18 ==
  /\ pc = "done"
  /\ Req = EndRequest
  /\ sent = << >>
  /\ Len(log) = 2
  /\ Len(adapters) = 1
  /\ log[1].sent = <<Response(NO_CONTENT)>>
  /\ log[2].sent = <<NameResponse(adapters[1]._name)>>

====
